---- MODULE Spec2Model ----
(***************************************************************************)
(* Model of pls.py: one invocation of the command-line assistant.          *)
(*                                                                         *)
(* Strings are sequences of one-character strings.  The main thread is a   *)
(* program counter `pc`; the SIGINT handler runs on top of the main thread *)
(* as a stack of handler frames `hstack` (Python runs a handler between    *)
(* two bytecodes of the main thread, and a handler can itself be           *)
(* interrupted).  The variables from firstProbe on are history variables:  *)
(* they record the calls the program makes and are never read by it.       *)
(* pollProbes and sleeps are ghost locals of start_ollama next to its      *)
(* local retries: the polls and waits of the call.  The three end with the *)
(* frame when start_ollama returns, and stay as the record of the failed   *)
(* start when it calls sys.exit(1).                                        *)
(***************************************************************************)
EXTENDS Integers, Sequences, FiniteSets, TLC

VARIABLES
    argv,                \* sys.argv
    ask_mode,            \* main: ask_mode
    pc,                  \* position of the main thread
    exc,                 \* exception propagating through main's finally
    exitCode,            \* exit status of the process, -1 while it runs
    was_already_running, \* main: "unset" before line 105
    server_process,      \* the global handle: "None" or "proc"
    retries,             \* start_ollama: retries
    content,             \* main: content
    command,             \* main: command
    confirm,             \* main: confirm (already lower-cased)
    hstack,              \* frames of signal_handler, innermost last
    sigs,                \* SIGINTs delivered so far
    ext,                 \* a server this invocation did not launch is up
    child,               \* the process of Popen: none / running / exited
    firstProbe, lastProbe, pollProbes, sleeps,
    cleanups, launches, stopCalls, terminates, kills,
    inferCalls, inferOK, prompts, rawConfirm, answered, execs,
    startFailed, finallyRan, intrInPoll,
    usage,               \* history: the usage message was printed
    inferRaised,         \* history: the inference call raised
    caught,              \* history: errors reported by except Exception
    timeouts,            \* history: process.wait calls that timed out
    sanRaw,              \* sanitize_command alone: its argument
    sanFenced,           \* ... its value of raw after step 1 (line 67)
    sanOut,              \* ... its result
    sanAgain,            \* ... the result of applying it to sanOut
    sanpc                \* ... position: start / applied / reapplied

vars == << argv, ask_mode, pc, exc, exitCode, was_already_running,
           server_process, retries, content, command, confirm, hstack, sigs,
           ext, child, firstProbe, lastProbe, pollProbes, sleeps,
           cleanups, launches, stopCalls, terminates, kills, inferCalls,
           inferOK, prompts, rawConfirm, answered, execs, startFailed,
           finallyRan, intrInPoll, usage, inferRaised, caught, timeouts,
           sanRaw, sanFenced, sanOut, sanAgain, sanpc >>

progVars == << argv, ask_mode, was_already_running, server_process, retries,
               content, command, confirm >>

histVars == << firstProbe, lastProbe, pollProbes, sleeps, cleanups,
               launches, stopCalls, terminates, kills, inferCalls, inferOK,
               prompts, rawConfirm, answered, execs, startFailed, finallyRan,
               intrInPoll >>

(***************************************************************************)
(* Bounds of the model and constants of the program.                       *)
(***************************************************************************)
MaxSignals == 2

MaxArgs == 2

MaxRetries == 20

MaxRawLen == 8

(***************************************************************************)
(* String helpers (str.strip, str.splitlines, str.join, str.lower).        *)
(***************************************************************************)
\* The backtick character (U+0060), which a TLA+ string cannot hold.
BT == "bt"

IsWS(c) == c \in {" ", "\n"}

RECURSIVE LStrip(_)
LStrip(s) ==
    IF s = <<>> THEN <<>>
    ELSE IF IsWS(Head(s)) THEN LStrip(Tail(s)) ELSE s

RECURSIVE RStrip(_)
RStrip(s) ==
    IF s = <<>> THEN <<>>
    ELSE IF IsWS(s[Len(s)]) THEN RStrip(SubSeq(s, 1, Len(s) - 1)) ELSE s

strip(s) == RStrip(LStrip(s))

HasFence(s) ==
    \E i \in 1..(Len(s) - 2) : s[i] = BT /\ s[i + 1] = BT /\ s[i + 2] = BT

FirstNL(s) ==
    IF \E i \in 1..Len(s) : s[i] = "\n"
    THEN CHOOSE i \in 1..Len(s) :
             s[i] = "\n" /\ \A j \in 1..(i - 1) : s[j] # "\n"
    ELSE 0

RECURSIVE splitlines(_)
splitlines(s) ==
    IF s = <<>> THEN <<>>
    ELSE LET i == FirstNL(s)
         IN  IF i = 0 THEN << s >>
             ELSE << SubSeq(s, 1, i - 1) >>
                      \o splitlines(SubSeq(s, i + 1, Len(s)))

RECURSIVE join(_)
join(lines) ==
    IF lines = <<>> THEN <<>>
    ELSE IF Len(lines) = 1 THEN lines[1]
    ELSE lines[1] \o << "\n" >> \o join(Tail(lines))

\* variant: only a bare marker counts, a marker with a language tag does not
startswith_fence_bare(s) == s = << BT, BT, BT >>

startswith_fence(s) ==
    Len(s) >= 3 /\ s[1] = BT /\ s[2] = BT /\ s[3] = BT

IsMarkerLine(ln) == startswith_fence(strip(ln))

NotMarkerLine(ln) == ~IsMarkerLine(ln)

LowerChar(c) ==
    CASE c = "Y" -> "y"
      [] c = "E" -> "e"
      [] c = "S" -> "s"
      [] c = "N" -> "n"
      [] c = "O" -> "o"
      [] OTHER   -> c

lower(s) == [i \in 1..Len(s) |-> LowerChar(s[i])]

(***************************************************************************)
(* sanitize_command                                                        *)
(***************************************************************************)
\* step 1, lines 62-67
fence_step(r1) ==
    IF HasFence(r1)
    THEN strip(join(SelectSeq(splitlines(r1), NotMarkerLine)))
    ELSE r1

\* step 2, lines 70-71
backtick_step(r2) ==
    IF /\ Len(r2) > 2
       /\ r2[1] = BT
       /\ r2[Len(r2)] = BT
    THEN strip(SubSeq(r2, 2, Len(r2) - 1))
    ELSE r2

sanitize_command(raw) == backtick_step(fence_step(strip(raw)))

(***************************************************************************)
(* Inputs of one invocation.                                               *)
(***************************************************************************)
ArgWords == {"-a", "q"}

ArgLists == UNION {[1..n -> ArgWords] : n \in 0..MaxArgs}

Alphabet == {BT, " ", "\n", "x"}

AllRaw == UNION {[1..n -> Alphabet] : n \in 0..MaxRawLen}

RawOutputs ==
    { <<>>,
      << "x" >>,
      << " ", "x", "\n" >>,
      << BT, "x", BT >>,
      << BT, BT >>,
      << BT, BT, BT, "\n", "x", "\n", BT, BT, BT >>,
      << BT, BT, BT, "\n", BT, BT, BT >> }

ConfirmInputs ==
    { <<>>, << "y" >>, << "Y" >>, << "y", "e", "s" >>, << "Y", "E", "S" >>,
      << "n" >>, << "N", "O" >>, << "y", "e" >> }

(***************************************************************************)
(* Decisions of the code, one definition per condition.                    *)
(***************************************************************************)
RemoveFirst(s, w) ==
    LET i == CHOOSE k \in 1..Len(s) :
                 s[k] = w /\ \A j \in 1..(k - 1) : s[j] # w
    IN  SubSeq(s, 1, i - 1) \o SubSeq(s, i + 1, Len(s))

HasFlag(a) == \E i \in 1..Len(a) : a[i] = "-a"

\* variant: the program name is not counted
MissingQuery_NoName(a) == Len(a) < 1

MissingQuery(a) == Len(a) < 2

\* is_ollama_running: True needs a listening server; a connection error or
\* a read timeout gives False, also in front of a server that is up.
ProbeOutcomes == {FALSE} \cup (IF ext \/ child = "running" THEN {TRUE} ELSE {})

HealthName(r) == IF r THEN "healthy" ELSE "unhealthy"

\* variant: the reaper runs whatever the probe said
NeedCleanup_Always(r) == TRUE

NeedCleanup(r) == ~r

\* variant: the server is never launched
NeedStart_Never(war) == FALSE

\* variant: the server is launched whatever the start decision was
NeedStart_Always(war) == TRUE

NeedStart(war) == war = "False"

\* variant: the comparison is >= instead of >
GiveUp_AtBound(r) == r >= MaxRetries

GiveUp(r) == r > MaxRetries

HandlerGuard(sp) == sp # "None"

\* variant: the ownership test is inverted
FinallyGuard_Inverted(war, sp) == war = "True" /\ sp # "None"

FinallyGuard(war, sp) == war = "False" /\ sp # "None"

EmptyCommand(c) == c = <<>>

\* variant: everything but a plain no counts as a yes
Affirmative_NotNo(c) == c \notin { << "n" >>, << "n", "o" >> }

Affirmative(c) == c \in { <<>>, << "y" >>, << "y", "e", "s" >> }

(***************************************************************************)
(* Positions of the main thread.                                           *)
(***************************************************************************)
PreTryPcs == {"args", "probe1", "cleanup", "probe2"}

TryPcs == {"try", "launch", "poll", "sleep", "assign", "infer", "chat",
           "display", "prompt", "decide", "exec", "except"}

FinallyPcs == {"finally", "f_term", "f_wait", "f_kill", "f_print", "end"}

MainRuns == pc # "terminated" /\ hstack = <<>>

MainInit ==
    /\ argv \in {<< "pls" >> \o a : a \in ArgLists}
    /\ ask_mode = FALSE
    /\ pc = "args"
    /\ exc = "none"
    /\ exitCode = -1
    /\ was_already_running = "unset"
    /\ server_process = "None"
    /\ retries = 0
    /\ content = <<>>
    /\ command = <<>>
    /\ confirm = <<>>
    /\ hstack = <<>>
    /\ sigs = 0
    /\ ext \in BOOLEAN
    /\ child = "none"
    /\ firstProbe = "none"
    /\ lastProbe = "none"
    /\ pollProbes = 0
    /\ sleeps = 0
    /\ cleanups = 0
    /\ launches = 0
    /\ stopCalls = 0
    /\ terminates = 0
    /\ kills = 0
    /\ inferCalls = 0
    /\ inferOK = FALSE
    /\ prompts = 0
    /\ rawConfirm = <<>>
    /\ answered = FALSE
    /\ execs = 0
    /\ startFailed = FALSE
    /\ finallyRan = FALSE
    /\ intrInPoll = FALSE
    /\ usage = FALSE
    /\ inferRaised = FALSE
    /\ caught = 0
    /\ timeouts = 0

SanIdle ==
    /\ sanRaw = <<>>
    /\ sanFenced = <<>>
    /\ sanOut = <<>>
    /\ sanAgain = <<>>
    /\ sanpc = "idle"

Init == MainInit /\ SanIdle


(***************************************************************************)
(* Groups of variables for UNCHANGED.                                      *)
(***************************************************************************)
gStr == << content, command, confirm, rawConfirm, answered >>

gSig == << hstack, sigs, intrInPoll >>

gEnv == << ext, child >>

gProbe == << firstProbe, lastProbe, pollProbes >>

gStop == << stopCalls, terminates, kills >>

gCtl == << exc, exitCode >>

gAux == << usage, inferRaised, caught, timeouts >>

sanVars == << sanRaw, sanFenced, sanOut, sanAgain, sanpc >>

DoProbe(r) ==
    /\ firstProbe' = IF firstProbe = "none" THEN HealthName(r) ELSE firstProbe
    /\ lastProbe' = HealthName(r)

(***************************************************************************)
(* main, lines 89-109: mode, usage, the start decision.                    *)
(***************************************************************************)
ParseArgs ==
    /\ MainRuns /\ pc = "args"
    /\ LET flag == HasFlag(argv)
           a2 == IF flag THEN RemoveFirst(argv, "-a") ELSE argv
       IN  /\ ask_mode' = flag
           /\ argv' = a2
           /\ IF MissingQuery(a2)
              THEN pc' = "terminated" /\ exitCode' = 1 /\ usage' = TRUE
              ELSE pc' = "probe1" /\ exitCode' = exitCode /\ usage' = usage
    /\ UNCHANGED << inferRaised, caught, timeouts, sanVars, exc,
                    was_already_running, server_process, retries,
                    gStr, gSig, gEnv, gProbe, gStop, sleeps, cleanups,
                    launches, inferCalls, inferOK, prompts, execs,
                    startFailed, finallyRan >>

Probe1 ==
    /\ MainRuns /\ pc = "probe1"
    /\ \E r \in ProbeOutcomes :
          /\ DoProbe(r)
          /\ pc' = IF NeedCleanup(r) THEN "cleanup" ELSE "probe2"
    /\ UNCHANGED << gAux, sanVars, argv, ask_mode, gCtl, was_already_running,
                    server_process, retries, gStr, gSig, gEnv, pollProbes,
                    gStop, sleeps, cleanups, launches, inferCalls, inferOK,
                    prompts, execs, startFailed, finallyRan >>

\* pkill -9 -f ollama: best effort, a process of another user survives it
Cleanup ==
    /\ MainRuns /\ pc = "cleanup"
    /\ cleanups' = cleanups + 1
    /\ ext' \in {FALSE, ext}
    /\ child' = IF child = "running" THEN "exited" ELSE child
    /\ pc' = "probe2"
    /\ UNCHANGED << gAux, sanVars, argv, ask_mode, gCtl, was_already_running,
                    server_process, retries, gStr, gSig, gProbe, gStop,
                    sleeps, launches, inferCalls, inferOK, prompts, execs,
                    startFailed, finallyRan >>

Probe2 ==
    /\ MainRuns /\ pc = "probe2"
    /\ \E r \in ProbeOutcomes :
          /\ DoProbe(r)
          /\ was_already_running' = IF r THEN "True" ELSE "False"
    /\ pc' = "try"
    /\ UNCHANGED << gAux, sanVars, argv, ask_mode, gCtl, server_process,
                    retries, gStr,
                    gSig, gEnv, pollProbes, gStop, sleeps, cleanups,
                    launches, inferCalls, inferOK, prompts, execs,
                    startFailed, finallyRan >>

StartDecision ==
    /\ MainRuns /\ pc = "try"
    /\ pc' = IF NeedStart(was_already_running) THEN "launch" ELSE "infer"
    /\ UNCHANGED << gAux, sanVars, progVars, gCtl, gSig, gEnv, histVars >>

(***************************************************************************)
(* start_ollama, lines 33-48.                                              *)
(***************************************************************************)
Launch ==
    /\ MainRuns /\ pc = "launch"
    /\ child' = "running"
    /\ launches' = launches + 1
    /\ retries' = 0
    /\ pc' = "poll"
    /\ UNCHANGED << gAux, sanVars, argv, ask_mode, gCtl, was_already_running,
                    server_process, gStr, gSig, ext, gProbe, gStop, sleeps,
                    cleanups, inferCalls, inferOK, prompts, execs,
                    startFailed, finallyRan >>

\* Popen raises OSError when the server binary cannot be run
LaunchFail ==
    /\ MainRuns /\ pc = "launch"
    /\ pc' = "except"
    /\ UNCHANGED << gAux, sanVars, progVars, gCtl, gSig, gEnv, histVars >>

Poll ==
    /\ MainRuns /\ pc = "poll"
    /\ \E r \in ProbeOutcomes :
          /\ DoProbe(r)
          /\ IF r
             THEN /\ pc' = "assign"
                  /\ retries' = 0 /\ sleeps' = 0 /\ pollProbes' = 0
             ELSE /\ pc' = "sleep"
                  /\ pollProbes' = pollProbes + 1
                  /\ UNCHANGED << retries, sleeps >>
    /\ UNCHANGED << gAux, sanVars, argv, ask_mode, gCtl, was_already_running,
                    server_process, gStr, gSig, gEnv, gStop,
                    cleanups, launches, inferCalls, inferOK,
                    prompts, execs, startFailed, finallyRan >>

Sleep ==
    /\ MainRuns /\ pc = "sleep"
    /\ sleeps' = sleeps + 1
    /\ retries' = retries + 1
    /\ IF GiveUp(retries')
       THEN startFailed' = TRUE /\ exc' = "exit1" /\ pc' = "finally"
       ELSE startFailed' = startFailed /\ exc' = exc /\ pc' = "poll"
    /\ UNCHANGED << gAux, sanVars, argv, ask_mode, exitCode,
                    was_already_running,
                    server_process, gStr, gSig, gEnv, gProbe, gStop,
                    cleanups, launches, inferCalls, inferOK, prompts, execs,
                    finallyRan >>

\* variant: storing the handle also marks the server as running
Assign_MarksRunning ==
    /\ MainRuns /\ pc = "assign"
    /\ server_process' = "proc"
    /\ was_already_running' = "True"
    /\ pc' = "infer"
    /\ UNCHANGED << gAux, sanVars, argv, ask_mode, gCtl, retries, gStr,
                    gSig, gEnv, histVars >>

\* line 109: the returned handle is stored in the global
Assign ==
    /\ MainRuns /\ pc = "assign"
    /\ server_process' = "proc"
    /\ pc' = "infer"
    /\ UNCHANGED << gAux, sanVars, argv, ask_mode, gCtl, was_already_running,
                    retries,
                    gStr, gSig, gEnv, histVars >>

(***************************************************************************)
(* main, lines 129-168: inference, display, confirmation, execution.       *)
(***************************************************************************)
IssueInference ==
    /\ MainRuns /\ pc = "infer"
    /\ inferCalls' = inferCalls + 1
    /\ pc' = "chat"
    /\ UNCHANGED << gAux, sanVars, progVars, gCtl, gSig, gEnv, gProbe, gStop,
                    sleeps,
                    cleanups, launches, inferOK, prompts, rawConfirm,
                    answered, execs, startFailed, finallyRan >>

InferReturn ==
    /\ MainRuns /\ pc = "chat"
    /\ \E raw \in RawOutputs : content' = strip(raw)
    /\ inferOK' = TRUE
    /\ pc' = "display"
    /\ UNCHANGED << gAux, sanVars, argv, ask_mode, gCtl, was_already_running,
                    server_process, retries, command, confirm, rawConfirm,
                    answered, gSig, gEnv, gProbe, gStop, sleeps, cleanups,
                    launches, inferCalls, prompts, execs, startFailed,
                    finallyRan >>

\* variant: the error is not caught and leaves main through finally
InferRaise_Uncaught ==
    /\ MainRuns /\ pc = "chat"
    /\ pc' = "finally"
    /\ exc' = "exit1"
    /\ inferRaised' = TRUE
    /\ UNCHANGED << usage, caught, timeouts, sanVars, progVars, exitCode,
                    gSig, gEnv, histVars >>

InferRaise ==
    /\ MainRuns /\ pc = "chat"
    /\ pc' = "except"
    /\ inferRaised' = TRUE
    /\ UNCHANGED << usage, caught, timeouts, sanVars, progVars, gCtl, gSig,
                    gEnv, histVars >>

Display ==
    /\ MainRuns /\ pc = "display"
    /\ IF ask_mode
       THEN command' = command /\ pc' = "finally"
       ELSE /\ command' = sanitize_command(content)
            /\ pc' = IF EmptyCommand(command') THEN "finally" ELSE "prompt"
    /\ UNCHANGED << gAux, sanVars, argv, ask_mode, gCtl, was_already_running,
                    server_process, retries, content, confirm, gSig, gEnv,
                    histVars >>

Prompt ==
    /\ MainRuns /\ pc = "prompt"
    /\ prompts' = prompts + 1
    /\ \E inp \in ConfirmInputs :
          /\ rawConfirm' = inp
          /\ confirm' = lower(inp)
    /\ answered' = TRUE
    /\ pc' = "decide"
    /\ UNCHANGED << gAux, sanVars, argv, ask_mode, gCtl, was_already_running,
                    server_process, retries, content, command, gSig, gEnv,
                    gProbe, gStop, sleeps, cleanups, launches, inferCalls,
                    inferOK, execs, startFailed, finallyRan >>

\* console.input raises EOFError when standard input is closed
PromptEOF ==
    /\ MainRuns /\ pc = "prompt"
    /\ prompts' = prompts + 1
    /\ pc' = "except"
    /\ UNCHANGED << gAux, sanVars, progVars, gCtl, gSig, gEnv, gProbe, gStop,
                    sleeps,
                    cleanups, launches, inferCalls, inferOK, rawConfirm,
                    answered, execs, startFailed, finallyRan >>

Decide ==
    /\ MainRuns /\ pc = "decide"
    /\ IF Affirmative(confirm)
       THEN execs' = execs + 1 /\ pc' = "exec"
       ELSE execs' = execs /\ pc' = "finally"
    /\ UNCHANGED << gAux, sanVars, progVars, gCtl, gSig, gEnv, gProbe, gStop,
                    sleeps,
                    cleanups, launches, inferCalls, inferOK, prompts,
                    rawConfirm, answered, startFailed, finallyRan >>

ExecDone ==
    /\ MainRuns /\ pc = "exec"
    /\ pc' = "finally"
    /\ UNCHANGED << gAux, sanVars, progVars, gCtl, gSig, gEnv, histVars >>

Except ==
    /\ MainRuns /\ pc = "except"
    /\ pc' = "finally"
    /\ caught' = caught + 1
    /\ UNCHANGED << usage, inferRaised, timeouts, sanVars, progVars, gCtl,
                    gSig, gEnv, histVars >>


(***************************************************************************)
(* stop_ollama, lines 50-56: what each call does to the process.           *)
(***************************************************************************)
\* process.wait returned: the process has exited
AfterWait(c) == IF c = "running" THEN "exited" ELSE c

\* process.wait raises TimeoutExpired only for a process still running
CanTimeout(c) == c = "running"

AfterKill(c) == IF c = "running" THEN "exited" ELSE c

(***************************************************************************)
(* main, lines 170-173: the finally block, then the end of main.           *)
(***************************************************************************)
Finally ==
    /\ MainRuns /\ pc = "finally"
    /\ finallyRan' = TRUE
    /\ IF FinallyGuard(was_already_running, server_process)
       THEN stopCalls' = stopCalls + 1 /\ pc' = "f_term"
       ELSE stopCalls' = stopCalls /\ pc' = "end"
    /\ UNCHANGED << gAux, sanVars, progVars, gCtl, gSig, gEnv, gProbe,
                    sleeps, cleanups,
                    launches, terminates, kills, inferCalls, inferOK,
                    prompts, rawConfirm, answered, execs, startFailed >>

F_Terminate ==
    /\ MainRuns /\ pc = "f_term"
    /\ terminates' = terminates + 1
    /\ pc' = "f_wait"
    /\ UNCHANGED << gAux, sanVars, progVars, gCtl, gSig, gEnv, gProbe,
                    sleeps, cleanups,
                    launches, stopCalls, kills, inferCalls, inferOK,
                    prompts, rawConfirm, answered, execs, startFailed,
                    finallyRan >>

\* variant: the kill follows the wait whether or not it timed out
F_WaitExit_ThenKill ==
    /\ MainRuns /\ pc = "f_wait"
    /\ child' = AfterWait(child)
    /\ pc' = "f_kill"
    /\ UNCHANGED << gAux, sanVars, progVars, gCtl, gSig, ext, histVars >>

F_WaitExit ==
    /\ MainRuns /\ pc = "f_wait"
    /\ child' = AfterWait(child)
    /\ pc' = "f_print"
    /\ UNCHANGED << gAux, sanVars, progVars, gCtl, gSig, ext, histVars >>

F_WaitTimeout ==
    /\ MainRuns /\ pc = "f_wait"
    /\ CanTimeout(child)
    /\ pc' = "f_kill"
    /\ timeouts' = timeouts + 1
    /\ UNCHANGED << usage, inferRaised, caught, sanVars, progVars, gCtl,
                    gSig, gEnv, histVars >>

F_Kill ==
    /\ MainRuns /\ pc = "f_kill"
    /\ kills' = kills + 1
    /\ child' = AfterKill(child)
    /\ pc' = "f_print"
    /\ UNCHANGED << gAux, sanVars, progVars, gCtl, gSig, ext, gProbe, sleeps,
                    cleanups,
                    launches, stopCalls, terminates, inferCalls, inferOK,
                    prompts, rawConfirm, answered, execs, startFailed,
                    finallyRan >>

F_Print ==
    /\ MainRuns /\ pc = "f_print"
    /\ pc' = "end"
    /\ UNCHANGED << gAux, sanVars, progVars, gCtl, gSig, gEnv, histVars >>

\* main returns, or the SystemExit that went through finally ends the process
End ==
    /\ MainRuns /\ pc = "end"
    /\ pc' = "terminated"
    /\ exitCode' = IF exc = "exit1" THEN 1 ELSE 0
    /\ UNCHANGED << gAux, sanVars, progVars, exc, gSig, gEnv, histVars >>

(***************************************************************************)
(* SIGINT and signal_handler, lines 79-83.                                 *)
(***************************************************************************)
Top == hstack[Len(hstack)]

SetTop(p) == [hstack EXCEPT ![Len(hstack)] = p]

InHandler(p) == pc # "terminated" /\ hstack # <<>> /\ Top = p

Interrupt ==
    /\ pc # "terminated"
    /\ sigs < MaxSignals
    /\ sigs' = sigs + 1
    /\ hstack' = Append(hstack, "h_check")
    /\ intrInPoll' = (intrInPoll \/ (hstack = <<>> /\ pc \in {"poll", "sleep"}))
    /\ UNCHANGED << gAux, sanVars, progVars, pc, gCtl, gEnv, gProbe, sleeps,
                    cleanups,
                    launches, gStop, inferCalls, inferOK, prompts,
                    rawConfirm, answered, execs, startFailed, finallyRan >>

H_Check ==
    /\ InHandler("h_check")
    /\ IF HandlerGuard(server_process)
       THEN stopCalls' = stopCalls + 1 /\ hstack' = SetTop("h_term")
       ELSE stopCalls' = stopCalls /\ hstack' = SetTop("h_exit")
    /\ UNCHANGED << gAux, sanVars, progVars, pc, gCtl, sigs, intrInPoll,
                    gEnv, gProbe,
                    sleeps, cleanups, launches, terminates, kills,
                    inferCalls, inferOK, prompts, rawConfirm, answered,
                    execs, startFailed, finallyRan >>

H_Terminate ==
    /\ InHandler("h_term")
    /\ terminates' = terminates + 1
    /\ hstack' = SetTop("h_wait")
    /\ UNCHANGED << gAux, sanVars, progVars, pc, gCtl, sigs, intrInPoll,
                    gEnv, gProbe,
                    sleeps, cleanups, launches, stopCalls, kills,
                    inferCalls, inferOK, prompts, rawConfirm, answered,
                    execs, startFailed, finallyRan >>

H_WaitExit ==
    /\ InHandler("h_wait")
    /\ child' = AfterWait(child)
    /\ hstack' = SetTop("h_exit")
    /\ UNCHANGED << gAux, sanVars, progVars, pc, gCtl, sigs, intrInPoll, ext,
                    histVars >>

H_WaitTimeout ==
    /\ InHandler("h_wait")
    /\ CanTimeout(child)
    /\ hstack' = SetTop("h_kill")
    /\ timeouts' = timeouts + 1
    /\ UNCHANGED << usage, inferRaised, caught, sanVars, progVars, pc, gCtl,
                    sigs, intrInPoll, gEnv, histVars >>

H_Kill ==
    /\ InHandler("h_kill")
    /\ kills' = kills + 1
    /\ child' = AfterKill(child)
    /\ hstack' = SetTop("h_exit")
    /\ UNCHANGED << gAux, sanVars, progVars, pc, gCtl, sigs, intrInPoll, ext,
                    gProbe,
                    sleeps, cleanups, launches, stopCalls, terminates,
                    inferCalls, inferOK, prompts, rawConfirm, answered,
                    execs, startFailed, finallyRan >>

\* sys.exit(0): SystemExit unwinds every handler frame (nothing in them
\* catches it) and is raised in main where main was interrupted; main's
\* except Exception does not catch it, main's finally runs if main was
\* inside the try statement and not yet in its finally block.
H_Exit ==
    /\ InHandler("h_exit")
    /\ hstack' = <<>>
    /\ IF pc \in TryPcs
       THEN pc' = "finally" /\ exc' = "exit0" /\ exitCode' = exitCode
       ELSE pc' = "terminated" /\ exc' = exc /\ exitCode' = 0
    /\ UNCHANGED << gAux, sanVars, progVars, sigs, intrInPoll, gEnv,
                    histVars >>

Next ==
    \/ ParseArgs \/ Probe1 \/ Cleanup \/ Probe2 \/ StartDecision
    \/ Launch \/ LaunchFail \/ Poll \/ Sleep \/ Assign
    \/ IssueInference \/ InferReturn \/ InferRaise \/ Display
    \/ Prompt \/ PromptEOF \/ Decide \/ ExecDone \/ Except
    \/ Finally \/ F_Terminate \/ F_WaitExit \/ F_WaitTimeout \/ F_Kill
    \/ F_Print \/ End
    \/ Interrupt \/ H_Check \/ H_Terminate \/ H_WaitExit \/ H_WaitTimeout
    \/ H_Kill \/ H_Exit

Spec == Init /\ [][Next]_vars

(***************************************************************************)
(* sanitize_command on its own: the argument is drawn from every text of   *)
(* at most MaxRawLen characters, the function is applied to it and then to *)
(* its own result.  main does not run.                                     *)
(***************************************************************************)
mainVars == << pc, gCtl, progVars, gSig, gEnv, histVars, gAux >>

InitSan ==
    /\ MainInit /\ argv = << "pls" >> /\ ext = FALSE
    /\ sanRaw \in AllRaw
    /\ sanFenced = <<>>
    /\ sanOut = <<>>
    /\ sanAgain = <<>>
    /\ sanpc = "start"

SanApply ==
    /\ sanpc = "start"
    /\ sanFenced' = fence_step(strip(sanRaw))
    /\ sanOut' = sanitize_command(sanRaw)
    /\ sanpc' = "applied"
    /\ UNCHANGED << sanRaw, sanAgain, mainVars >>

SanReapply ==
    /\ sanpc = "applied"
    /\ sanAgain' = sanitize_command(sanOut)
    /\ sanpc' = "reapplied"
    /\ UNCHANGED << sanRaw, sanFenced, sanOut, mainVars >>

NextSan == SanApply \/ SanReapply

SpecSan == InitSan /\ [][NextSan]_vars


(***************************************************************************)
(* Properties.                                                             *)
(***************************************************************************)
Terminated == pc = "terminated"

\* C1: an invocation interrupted during the health-poll wait of
\* start_ollama stops the launched process exactly once before it exits.
C1_InterruptedPollStopsOnce ==
    (Terminated /\ intrInPoll) => (stopCalls = 1 /\ terminates = 1)

\* C2: in every execution stop_ollama is invoked at most once on the
\* process this invocation launched.
C2_AtMostOneStop == stopCalls <= 1

\* C3: an uninterrupted invocation that launched the server and saw it
\* healthy has called stop_ollama on it exactly once when it ends, whatever
\* the ending (answer, execution, decline, empty command, inference error).
C3_UninterruptedStopsOnce ==
    (Terminated /\ sigs = 0 /\ launches = 1 /\ server_process = "proc")
        => (stopCalls = 1 /\ terminates = 1 /\ child = "exited")

C3_Witness ==
    /\ Terminated /\ sigs = 0 /\ launches = 1 /\ server_process = "proc"
    /\ execs = 1 /\ stopCalls = 1

\* C4: when the health poll exhausts its retry bound, the launched process
\* is stopped before the invocation exits and is not left running.
C4_StartFailureStops ==
    (Terminated /\ startFailed) => (stopCalls >= 1 /\ child # "running")

\* C5: when the first health probe reports healthy, the invocation reaps
\* nothing, launches nothing and its ownership flag is false, whatever the
\* later probes report.
C5_FirstHealthyNoLaunch ==
    firstProbe = "healthy"
        => (cleanups = 0 /\ launches = 0 /\ was_already_running # "False")

\* C6: once the start decision found the server already running, no step
\* (normal completion, inference error, interruption) stops, terminates,
\* kills or reaps a server.
C6_NotOwnedNeverStopped ==
    [][was_already_running = "True"
          => /\ stopCalls' = stopCalls
             /\ terminates' = terminates
             /\ kills' = kills
             /\ cleanups' = cleanups
             /\ ext' = ext]_vars

C6_Witness ==
    /\ Terminated /\ was_already_running = "True" /\ ext
    /\ sigs >= 1 /\ exc = "exit0" /\ finallyRan /\ inferCalls = 1

\* C7: cleanup_zombies runs at most once per invocation, only right after
\* a probe that reported unhealthy, and never after the launch.
C7_CleanupOnceAfterUnhealthy ==
    [][cleanups' # cleanups
          => /\ cleanups = 0 /\ cleanups' = 1
             /\ lastProbe = "unhealthy"
             /\ launches = 0]_vars

C7_Witness == cleanups = 1 /\ launches = 1 /\ Terminated

\* C8: after the start decision and the teardown, the server is in the
\* health state it had before: a server seen healthy is still up, and when
\* it was seen unreachable no process launched here is still running.
C8_HealthStateRestored ==
    (Terminated /\ finallyRan)
        => /\ (firstProbe = "healthy" => ext)
           /\ (firstProbe = "unhealthy" => child # "running")

\* C9 (as stated): start_ollama gives up after exactly 20 polls and waits.
C9_GivesUpAfterExactlyBound ==
    startFailed => (sleeps = MaxRetries /\ pollProbes = MaxRetries)

\* C9 (amended): the retry counter never passes MaxRetries + 1; when every
\* poll reports unhealthy start_ollama gives up after exactly
\* MaxRetries + 1 = 21 polls and 21 waits, raises SystemExit(1), which is
\* the exit status of an uninterrupted invocation, and no inference call is
\* issued.
C9_GivesUpAfterBoundPlusOne ==
    /\ retries <= MaxRetries + 1
    /\ startFailed
         => /\ retries = MaxRetries + 1
            /\ sleeps = MaxRetries + 1
            /\ pollProbes = MaxRetries + 1
            /\ exc = "exit1"
            /\ inferCalls = 0
    /\ (startFailed /\ Terminated /\ sigs = 0) => exitCode = 1

C9_Witness == startFailed /\ Terminated /\ sigs = 0 /\ exitCode = 1

\* C10: a command is executed at most once, only in command mode after a
\* successful inference call, a non-empty sanitized command and a prompt
\* answered with "", "y" or "yes" (case-insensitive); and an uninterrupted
\* invocation in which all of these hold does execute it.
C10_ExecIffConfirmed ==
    LET yes == lower(rawConfirm) \in { <<>>, << "y" >>, << "y", "e", "s" >> }
        all == /\ ~ask_mode /\ inferOK /\ command # <<>>
               /\ prompts = 1 /\ answered /\ yes
    IN  /\ execs <= 1
        /\ execs = 1 => all
        /\ (Terminated /\ sigs = 0 /\ all) => execs = 1

C10_Witness ==
    /\ Terminated /\ execs = 1 /\ rawConfirm = << "Y", "E", "S" >>
    /\ command = << "x" >>


\* C11: when the inference call raises, no prompt is shown and no command
\* is executed; in an uninterrupted invocation the error is caught and
\* reported once, the finally block runs, and main returns normally (the
\* error does not leave main, exit status 0).
C11_InferenceErrorCaught ==
    /\ inferRaised => (prompts = 0 /\ execs = 0 /\ ~inferOK)
    /\ (inferRaised /\ Terminated /\ sigs = 0)
          => (caught = 1 /\ finallyRan /\ exc = "none" /\ exitCode = 0)

C11_Witness ==
    /\ inferRaised /\ Terminated /\ sigs = 0
    /\ launches = 1 /\ stopCalls = 1 /\ caught = 1

\* C14: was_already_running is assigned once, by the start decision, and no
\* later step of main or of the handler changes it.
C14_FlagAssignedOnce ==
    [][/\ was_already_running # "unset"
            => was_already_running' = was_already_running
       /\ was_already_running' # was_already_running
            => (pc = "probe2" /\ hstack = <<>>)]_vars

C14_Witness ==
    /\ Terminated /\ finallyRan /\ was_already_running = "False"
    /\ server_process = "proc" /\ sigs >= 1

\* C15: without query words (with or without -a) the invocation prints the
\* usage message and exits with status 1, and has made no health probe, no
\* reaping, no launch, no inference call and no stop.
C15_NoQueryUsageOnly ==
    /\ usage => /\ Terminated /\ exitCode = 1
                /\ firstProbe = "none" /\ cleanups = 0 /\ launches = 0
                /\ inferCalls = 0 /\ stopCalls = 0 /\ terminates = 0
    /\ (pc # "args" /\ sigs = 0 /\ Len(argv) <= 1) => usage

C15_Witness == usage /\ ask_mode /\ Terminated /\ argv = << "pls" >>

\* C18: whenever the invocation launches a server, cleanup_zombies ran
\* earlier and the probe made after the reaping reported unhealthy.
C18_LaunchAfterReapAndRecheck ==
    launches >= 1 => (cleanups >= 1 /\ was_already_running = "False")

\* C19: stop_ollama requests termination first, waits, and kills only
\* after a wait that timed out; with no handle nothing is done; in an
\* uninterrupted invocation every call terminates and every timed-out wait
\* is followed by the kill.
C19_GracefulThenForce ==
    /\ kills <= timeouts
    /\ timeouts <= terminates
    /\ terminates <= stopCalls
    /\ server_process = "None"
          => (stopCalls = 0 /\ terminates = 0 /\ kills = 0)
    /\ (Terminated /\ sigs = 0)
          => (terminates = stopCalls /\ kills = timeouts)

C19_Witness ==
    /\ Terminated /\ sigs = 0 /\ stopCalls = 1 /\ terminates = 1
    /\ timeouts = 1 /\ kills = 1

\* C20: the inference call is issued at most once, and only when the most
\* recent health probe of this invocation reported healthy.
C20_InferenceOnceAfterHealthy ==
    [][inferCalls' # inferCalls
          => /\ inferCalls = 0 /\ inferCalls' = 1
             /\ lastProbe = "healthy"]_vars

C20_Witness == inferCalls = 1 /\ launches = 1 /\ inferOK /\ Terminated


\* C12: sanitize_command is idempotent: applied to its own result it
\* returns that result.
C12_Idempotent == sanpc = "reapplied" => sanAgain = sanOut

\* C13: for a raw text in which every line is blank or a fence marker
\* (three or more backticks, then at most a language tag), the result of
\* sanitize_command is empty, which is the case main reports as an empty
\* command (line 153).
C13_FenceOnlyIsEmpty ==
    LET isTag(t, k) == \A i \in (k + 1)..Len(t) : t[i] = "x"
        isFence(t) == \E k \in 3..Len(t) :
                          (\A i \in 1..k : t[i] = BT) /\ isTag(t, k)
        lines == splitlines(sanRaw)
        only == \A i \in 1..Len(lines) :
                    strip(lines[i]) = <<>> \/ isFence(strip(lines[i]))
    IN  (sanpc # "start" /\ only) => (sanOut = <<>> /\ EmptyCommand(sanOut))

C13_Witness ==
    /\ sanpc = "applied"
    /\ sanRaw = << BT, BT, BT, "x", "\n", BT, BT, BT >>
    /\ sanOut = <<>>

\* C16: when the trimmed raw text contains a fence, step 1 drops exactly
\* the lines that are purely a fence delimiter and keeps every other line
\* in order.  A line counts as purely a delimiter here as generously as
\* possible: three or more backticks followed by anything without a
\* backtick.
C16_DropsExactlyFenceLines ==
    LET pure(ln) ==
            LET t == strip(ln)
            IN  \E k \in 3..Len(t) :
                    /\ \A i \in 1..k : t[i] = BT
                    /\ \A i \in (k + 1)..Len(t) : t[i] # BT
        keep(ln) == ~pure(ln)
        r1 == strip(sanRaw)
    IN  (sanpc # "start" /\ HasFence(r1))
            => sanFenced = strip(join(SelectSeq(splitlines(r1), keep)))

\* C17: a raw text that is empty once surrounding whitespace, fence
\* delimiter lines and one wrapping pair of backticks are removed gives the
\* empty result.
C17_ArtifactsOnlyIsEmpty ==
    LET pure(ln) ==
            LET t == strip(ln)
            IN  \E k \in 3..Len(t) :
                    /\ \A i \in 1..k : t[i] = BT
                    /\ \A i \in (k + 1)..Len(t) : t[i] # BT
        keep(ln) == ~pure(ln)
        t1 == strip(sanRaw)
        t2 == IF HasFence(t1)
              THEN strip(join(SelectSeq(splitlines(t1), keep)))
              ELSE t1
        t3 == IF Len(t2) >= 2 /\ t2[1] = BT /\ t2[Len(t2)] = BT
              THEN strip(SubSeq(t2, 2, Len(t2) - 1))
              ELSE t2
    IN  (sanpc # "start" /\ t3 = <<>>) => sanOut = <<>>

====
